---- MODULE Spec2Model ----
(***************************************************************************)
(* The event-registration form of src/components/forms/                    *)
(* EventRegistrationForm.tsx: the submit handler (onSubmit), react-hook-   *)
(* form's handleSubmit gate in front of it, the input handler, and the     *)
(* utilities the handler calls (RateLimiter, validateForm, SecurityMonitor,*)
(* sanitizeInput).  The utilities live in @/utils/formValidation and       *)
(* @/utils/securityMonitoring; they are modelled from their contracts.     *)
(***************************************************************************)
EXTENDS Integers, Sequences, FiniteSets, TLC

VARIABLES
    now,          \* Date.now(), in milliseconds
    attempts,     \* RateLimitState: action key -> sequence of attempt timestamps
    events,       \* SecurityMonitor's log: sequence of SecurityEvent
    values,       \* react-hook-form's field values (set by setValue)
    errors,       \* react-hook-form's formState.errors: fields it flagged
    formErrors,   \* useState formErrors: field -> message ("" for none)
    isSubmitting, \* useState isSubmitting
    deadline,     \* when the pending setTimeout of the simulated submission fires
    toast,        \* the last toast shown
    steps,        \* history: the checks the latest submit attempt ran, in order
    calls         \* history: the isAllowed calls made so far and when validateForm ran

vars == <<now, attempts, events, values, errors, formErrors, isSubmitting,
          deadline, toast, steps, calls>>

formVars == <<values, errors, formErrors, isSubmitting, deadline, toast, steps>>

(***************************************************************************)
(* Program constants                                                       *)
(***************************************************************************)
MaxAttempts == 3
WindowMs == 300000
MsPerMinute == 60000
SubmitDelayMs == 1000
PositionMinLength == 2
PositionMaxLength == 100

FormKey == "event-registration"

event == [title |-> "Global Citizenship Summit", isVirtual |-> FALSE]

(***************************************************************************)
(* Bounds of the model                                                     *)
(***************************************************************************)
MaxWindows == 1
MaxEvents == 4
MaxCalls == 4

Max(a, b) == IF a >= b THEN a ELSE b

CeilDiv(a, b) == (a + b - 1) \div b

\* The instants at which something may happen: the first millisecond of each
\* rate-limit window and its last one (a pending timer adds its own).
Offsets == {0, WindowMs - 1}

MaxNow == MaxWindows * WindowMs + SubmitDelayMs + 1

Instants == {t \in {w * WindowMs + o : w \in 0..MaxWindows, o \in Offsets} : t <= MaxNow}

Keys == {FormKey, "search"}

Fields == {"firstName", "lastName", "email", "phone", "organization", "position"}

(***************************************************************************)
(* Strings are modelled by what the validator looks at: the number of      *)
(* surrounding whitespace characters, the length of the rest, and whether  *)
(* the rest has the shape the field's pattern asks for.                    *)
(***************************************************************************)
Empty == [pad |-> 0, len |-> 0, wellFormed |-> FALSE]

Blank == [pad |-> 2, len |-> 0, wellFormed |-> FALSE]

Good == [pad |-> 1, len |-> 8, wellFormed |-> TRUE]

OneChar == [pad |-> 0, len |-> 1, wellFormed |-> TRUE]

AllGood == [f \in Fields |-> Good]

\* What the user may have typed into the fields when the form is next looked
\* at: every field filled in well, or all but one: a blank first name or a
\* one-letter position.
Typed ==
    {AllGood,
     [AllGood EXCEPT !["firstName"] = Blank],
     [AllGood EXCEPT !["position"] = OneChar]}

\* sanitizeInput: trims the surrounding whitespace.
sanitizeInput(raw) == [raw EXCEPT !.pad = 0]

(***************************************************************************)
(* Validator                                                               *)
(***************************************************************************)
commonValidationRules ==
    [name |-> [required |-> TRUE, minLength |-> {}, maxLength |-> {}, pattern |-> TRUE],
     email |-> [required |-> TRUE, minLength |-> {}, maxLength |-> {}, pattern |-> TRUE],
     phone |-> [required |-> TRUE, minLength |-> {}, maxLength |-> {}, pattern |-> TRUE],
     organization |-> [required |-> TRUE, minLength |-> {}, maxLength |-> {}, pattern |-> FALSE]]

validationRules ==
    [firstName |-> commonValidationRules.name,
     lastName |-> commonValidationRules.name,
     email |-> commonValidationRules.email,
     phone |-> commonValidationRules.phone,
     organization |-> commonValidationRules.organization,
     position |-> [required |-> TRUE, minLength |-> {PositionMinLength},
                   maxLength |-> {PositionMaxLength}, pattern |-> FALSE]]

\* One field against its rule (an optional bound is a set of at most one number): required, then length, then pattern.
validateField(value, rule) ==
    IF rule.required /\ value.len = 0 THEN "required"
    ELSE IF \E m \in rule.minLength : value.len < m THEN "minLength"
    ELSE IF \E m \in rule.maxLength : value.len > m THEN "maxLength"
    ELSE IF rule.pattern /\ ~value.wellFormed THEN "pattern"
    ELSE ""

\* validateForm(data, rules): every field of the rules is evaluated.
validateForm(data, rules) ==
    LET errs == [f \in DOMAIN rules |-> validateField(data[f], rules[f])]
    IN  [isValid |-> \A f \in DOMAIN rules : errs[f] = "", errors |-> errs]

(***************************************************************************)
(* RateLimiter                                                             *)
(***************************************************************************)
\* A faulty variant: a timestamp exactly windowMs old is kept.
PruneInclusive(ts, t, windowMs) == SelectSeq(ts, LAMBDA x : t - x <= windowMs)

\* The timestamps of ts still inside the window that ends at t.
Prune(ts, t, windowMs) == SelectSeq(ts, LAMBDA x : t - x < windowMs)

\* isAllowed's return value.
isAllowed(key, maxAttempts, windowMs) ==
    Len(Prune(attempts[key], now, windowMs)) < maxAttempts

\* A faulty variant: a rejected call is recorded too.
afterIsAllowedRecordsRejected(key, maxAttempts, windowMs) ==
    [attempts EXCEPT ![key] = Append(Prune(attempts[key], now, windowMs), now)]

\* A faulty variant: the stored timestamps are never pruned.
afterIsAllowedUnpruned(key, maxAttempts, windowMs) ==
    [attempts EXCEPT ![key] =
        IF Len(Prune(attempts[key], now, windowMs)) < maxAttempts
        THEN Append(attempts[key], now) ELSE attempts[key]]

\* The RateLimitState isAllowed leaves behind.
afterIsAllowed(key, maxAttempts, windowMs) ==
    LET recent == Prune(attempts[key], now, windowMs)
    IN  [attempts EXCEPT ![key] =
            IF Len(recent) < maxAttempts THEN Append(recent, now) ELSE recent]

\* getRemainingTime, read in RateLimitState st.
getRemainingTime(st, key, windowMs) ==
    IF st[key] = <<>> THEN 0
    ELSE Max(0, windowMs - (now - Head(st[key])))

(***************************************************************************)
(* SecurityMonitor                                                         *)
(***************************************************************************)
SuspicionThreshold == 2
SuspicionWindowMs == 60000

logEvent(log, type, metadata) ==
    Append(log, [type |-> type, metadata |-> metadata, timestamp |-> now])

detectSuspiciousActivity(log) ==
    Cardinality({i \in DOMAIN log :
                    /\ log[i].type = "form_submission"
                    /\ now - log[i].timestamp < SuspicionWindowMs}) >= SuspicionThreshold

(***************************************************************************)
(* The form component                                                      *)
(***************************************************************************)
NoToast == [title |-> "", remainingTime |-> 0, eventTitle |-> ""]

NoErrors == [f \in Fields |-> ""]

\* The fields registered with react-hook-form's `required` option.
RequiredFields == {"firstName", "lastName", "email", "phone", "organization", "position"}

\* The history kept beside the program's state: the latest isAllowed call, and
\* per key every timestamp isAllowed ever recorded, every window it was ever
\* queried with and the time of its latest call; and the times at which
\* validateForm ran.
NoCalls ==
    [last |-> [made |-> FALSE, key |-> FormKey, maxAttempts |-> 0, windowMs |-> 0,
               at |-> 0, allowed |-> FALSE],
     recorded |-> [k \in Keys |-> <<>>],
     queried |-> [k \in Keys |-> {}],
     checkedAt |-> [k \in Keys |-> 0],
     validated |-> <<>>]

\* The history after a call isAllowed(key, maxAttempts, windowMs).
noteCall(h, key, maxAttempts, windowMs) ==
    LET ok == isAllowed(key, maxAttempts, windowMs)
    IN  [h EXCEPT !.last = [made |-> TRUE, key |-> key, maxAttempts |-> maxAttempts,
                            windowMs |-> windowMs, at |-> now, allowed |-> ok],
                  !.recorded[key] = IF ok THEN Append(@, now) ELSE @,
                  !.queried[key] = @ \cup {windowMs},
                  !.checkedAt[key] = now]

Init ==
    /\ now = 0
    /\ attempts = [k \in Keys |-> <<>>]
    /\ events = <<>>
    /\ values = [f \in Fields |-> Empty]
    /\ errors = {}
    /\ formErrors = NoErrors
    /\ isSubmitting = FALSE
    /\ deadline = 0
    /\ toast = NoToast
    /\ steps = <<>>
    /\ calls = NoCalls

\* Time passes.
Tick ==
    /\ \E t \in Instants : t > now /\ now' = t
    /\ UNCHANGED <<attempts, events, calls>>
    /\ UNCHANGED formVars

\* Time reaches the instant the pending timer of the simulated submission fires.
Elapse ==
    /\ isSubmitting
    /\ now < deadline
    /\ now' = deadline
    /\ UNCHANGED <<attempts, events, calls>>
    /\ UNCHANGED formVars

\* handleInputChange(field, value), as the form values and the form errors
\* it leaves behind.
handleInputChange(st, field, value) ==
    [values |-> [st.values EXCEPT ![field] = sanitizeInput(value)],
     formErrors |-> IF st.formErrors[field] # ""
                    THEN [st.formErrors EXCEPT ![field] = ""]
                    ELSE st.formErrors]

RECURSIVE handleInputChanges(_, _, _)
handleInputChanges(st, fields, data) ==
    IF fields = {} THEN st
    ELSE LET f == CHOOSE x \in fields : TRUE
         IN  handleInputChanges(handleInputChange(st, f, data[f]), fields \ {f}, data)

\* The user edits the form: handleInputChange runs for every field whose
\* content they change.
HandleInputChange(data) ==
    /\ LET touched == {f \in Fields : sanitizeInput(data[f]) # values[f]}
           st == handleInputChanges([values |-> values, formErrors |-> formErrors],
                                    touched, data)
       IN  /\ touched # {}
           /\ values' = st.values
           /\ formErrors' = st.formErrors
    /\ UNCHANGED <<now, attempts, events, calls, errors, isSubmitting, deadline,
                   toast, steps>>

\* A faulty variant: the rejection by the rate limiter is not logged.
RejectRateLimitedUnlogged ==
    LET st == afterIsAllowed(FormKey, MaxAttempts, WindowMs)
        remainingTime == CeilDiv(getRemainingTime(st, FormKey, WindowMs), MsPerMinute)
    IN  /\ attempts' = st
        /\ calls' = noteCall(calls, FormKey, MaxAttempts, WindowMs)
        /\ toast' = [title |-> "Too many attempts",
                     remainingTime |-> remainingTime, eventTitle |-> ""]
        /\ steps' = <<"rateLimit">>
        /\ UNCHANGED <<events, formErrors, isSubmitting, deadline>>

\* onSubmit, the branch of a rejected rate-limit check.
RejectRateLimited ==
    LET st == afterIsAllowed(FormKey, MaxAttempts, WindowMs)
        remainingTime == CeilDiv(getRemainingTime(st, FormKey, WindowMs), MsPerMinute)
    IN  /\ attempts' = st
        /\ calls' = noteCall(calls, FormKey, MaxAttempts, WindowMs)
        /\ events' = logEvent(events, "rate_limit_exceeded",
                              [form |-> FormKey, remainingTime |-> remainingTime])
        /\ toast' = [title |-> "Too many attempts",
                     remainingTime |-> remainingTime, eventTitle |-> ""]
        /\ steps' = <<"rateLimit">>
        /\ UNCHANGED <<formErrors, isSubmitting, deadline>>

\* A faulty variant: validation runs ahead of the rate limiter, so an attempt that
\* fails it is not counted.
RejectInvalidUncounted(validation) ==
    /\ calls' = [calls EXCEPT !.validated = Append(@, now)]
    /\ formErrors' = validation.errors
    /\ events' = logEvent(events, "validation_failed",
                          [form |-> FormKey, errors |-> validation.errors])
    /\ steps' = <<"rateLimit", "validate">>
    /\ UNCHANGED <<attempts, toast, isSubmitting, deadline>>

\* onSubmit, the branch of a failed validation.
RejectInvalid(validation) ==
    /\ attempts' = afterIsAllowed(FormKey, MaxAttempts, WindowMs)
    /\ calls' = [noteCall(calls, FormKey, MaxAttempts, WindowMs)
                    EXCEPT !.validated = Append(@, now)]
    /\ formErrors' = validation.errors
    /\ events' = logEvent(events, "validation_failed",
                          [form |-> FormKey, errors |-> validation.errors])
    /\ steps' = <<"rateLimit", "validate">>
    /\ UNCHANGED <<toast, isSubmitting, deadline>>

\* onSubmit, the branch of detected suspicious activity.
RejectSuspicious ==
    /\ attempts' = afterIsAllowed(FormKey, MaxAttempts, WindowMs)
    /\ calls' = [noteCall(calls, FormKey, MaxAttempts, WindowMs)
                    EXCEPT !.validated = Append(@, now)]
    /\ toast' = [title |-> "Security Check", remainingTime |-> 0, eventTitle |-> ""]
    /\ steps' = <<"rateLimit", "validate", "suspicion">>
    /\ UNCHANGED <<events, formErrors, isSubmitting, deadline>>

\* onSubmit, all checks passed: up to the await of the simulated submission.
StartSubmission ==
    /\ attempts' = afterIsAllowed(FormKey, MaxAttempts, WindowMs)
    /\ calls' = [noteCall(calls, FormKey, MaxAttempts, WindowMs)
                    EXCEPT !.validated = Append(@, now)]
    /\ isSubmitting' = TRUE
    /\ events' = logEvent(events, "form_submission", [form |-> FormKey, success |-> TRUE])
    /\ deadline' = now + SubmitDelayMs
    /\ steps' = <<"rateLimit", "validate", "suspicion", "submit">>
    /\ UNCHANGED <<toast, formErrors>>

\* A faulty variant: the suspicion check is skipped.
onSubmitUnchecked(data) ==
    IF ~isAllowed(FormKey, MaxAttempts, WindowMs) THEN RejectRateLimited
    ELSE IF ~validateForm(data, validationRules).isValid
    THEN RejectInvalid(validateForm(data, validationRules))
    ELSE StartSubmission

\* onSubmit(data), up to its await.
onSubmit(data) ==
    IF ~isAllowed(FormKey, MaxAttempts, WindowMs) THEN RejectRateLimited
    ELSE IF ~validateForm(data, validationRules).isValid
    THEN RejectInvalid(validateForm(data, validationRules))
    ELSE IF detectSuspiciousActivity(events) THEN RejectSuspicious
    ELSE StartSubmission

\* The form's submit event: handleSubmit(onSubmit) runs react-hook-form's own
\* validation of the registered fields and calls onSubmit only when it passes.
HandleSubmit ==
    /\ ~isSubmitting
    /\ Len(events) < MaxEvents
    /\ now + SubmitDelayMs <= MaxNow
    /\ LET missing == {f \in RequiredFields : values[f].len = 0}
       IN  /\ errors' = missing
           /\ IF missing # {}
              THEN /\ steps' = <<>>
                   /\ UNCHANGED <<attempts, events, calls, formErrors, isSubmitting,
                                  deadline, toast>>
              ELSE onSubmit(values)
    /\ UNCHANGED <<now, values>>

\* A faulty variant: the confirmation does not name the event.
SubmissionResolvesUntitled ==
    /\ isSubmitting
    /\ now >= deadline
    /\ toast' = [title |-> "Registration successful!", remainingTime |-> 0, eventTitle |-> ""]
    /\ isSubmitting' = FALSE
    /\ UNCHANGED <<now, attempts, events, calls, values, errors, formErrors, deadline, steps>>

\* A faulty variant: no finally block, isSubmitting is never reset.
SubmissionResolvesStuck ==
    /\ isSubmitting
    /\ now >= deadline
    /\ toast' = [title |-> "Registration successful!",
                 remainingTime |-> 0, eventTitle |-> event.title]
    /\ UNCHANGED <<now, attempts, events, calls, values, errors, formErrors, deadline, steps,
                   isSubmitting>>

\* The timer fired and the awaited promise resolved: the rest of the try
\* block, then finally.
SubmissionResolves ==
    /\ isSubmitting
    /\ now >= deadline
    /\ toast' = [title |-> "Registration successful!",
                 remainingTime |-> 0, eventTitle |-> event.title]
    /\ isSubmitting' = FALSE
    /\ UNCHANGED <<now, attempts, events, calls, values, errors, formErrors, deadline, steps>>

\* Something inside the try block throws: the catch block, then finally.
SubmissionThrows ==
    /\ isSubmitting
    /\ events' = logEvent(events, "form_submission",
                          [form |-> FormKey, success |-> FALSE])
    /\ toast' = [title |-> "Registration failed", remainingTime |-> 0, eventTitle |-> ""]
    /\ isSubmitting' = FALSE
    /\ UNCHANGED <<now, attempts, calls, values, errors, formErrors, deadline, steps>>

\* A direct call rateLimiter.isAllowed(key, maxAttempts, windowMs).
IsAllowed(key, maxAttempts, windowMs) ==
    /\ Len(calls.recorded[FormKey]) + Len(calls.recorded["search"]) < MaxCalls
    /\ attempts' = afterIsAllowed(key, maxAttempts, windowMs)
    /\ calls' = noteCall(calls, key, maxAttempts, windowMs)
    /\ UNCHANGED <<now, events>>
    /\ UNCHANGED formVars

\* The limits and windows of the direct calls.
Limits == {1, MaxAttempts}

Windows == {WindowMs \div 2, WindowMs}

Next ==
    \/ Tick
    \/ Elapse
    \/ \E data \in Typed : HandleInputChange(data)
    \/ HandleSubmit
    \/ SubmissionResolves

Spec == Init /\ [][Next]_vars

\* The form, with a submission that may throw.
NextThrowing ==
    \/ Next
    \/ SubmissionThrows

SpecThrowing == Init /\ [][NextThrowing]_vars

\* Timers fire: time reaches a pending deadline, and the continuation of the
\* awaited promise then runs.
SpecLive == SpecThrowing /\ WF_vars(Elapse) /\ WF_vars(SubmissionResolves)

\* The RateLimiter on its own, under arbitrary calls.
NextLimiter ==
    \/ Tick
    \/ \E k \in Keys : \E m \in Limits : \E w \in Windows : IsAllowed(k, m, w)

SpecLimiter == Init /\ [][NextLimiter]_vars

TypeOK ==
    /\ now \in 0..MaxNow
    /\ isSubmitting \in BOOLEAN
    /\ Len(events) <= MaxEvents + 1

(***************************************************************************)
(* Properties                                                              *)
(***************************************************************************)
IsPrefix(a, b) == Len(a) <= Len(b) /\ SubSeq(b, 1, Len(a)) = a

Order == <<"rateLimit", "validate", "suspicion", "submit">>

Ran(check, trace) == \E i \in DOMAIN trace : trace[i] = check

\* The submit event reached onSubmit (react-hook-form found no required field empty).
Invoked == HandleSubmit /\ \A f \in RequiredFields : values[f].len # 0

\* The number of timestamps of ts inside the window that ends at t.
Within(ts, t, windowMs) == Cardinality({i \in DOMAIN ts : t - ts[i] < windowMs})

LastEvent(log) == log[Len(log)]

\* C1: every invocation of the submit handler runs its checks in the order
\* rate limit, validation, suspicion, submission: validation runs only if the
\* rate limiter allowed the attempt, the suspicion check only if validation
\* passed, and the form enters Submitting, logging a form_submission event,
\* only if all three checks passed.
C1_ChecksInOrder ==
    [][Invoked =>
        /\ steps' # <<>> /\ IsPrefix(steps', Order)
        /\ Ran("validate", steps') => isAllowed(FormKey, MaxAttempts, WindowMs)
        /\ Ran("suspicion", steps') => validateForm(values, validationRules).isValid
        /\ Ran("submit", steps') => ~detectSuspiciousActivity(events)
        /\ isSubmitting' <=> Ran("submit", steps')
        /\ (Len(events') > Len(events) /\ LastEvent(events').type = "form_submission")
              <=> Ran("submit", steps')
        /\ formErrors' # formErrors => Ran("validate", steps')
    ]_vars

\* C1's case: an attempt passed all three checks and the form is Submitting.
C1_Witness == isSubmitting /\ steps = Order

\* C2: when three attempts were let through within the last 5 minutes, a
\* further submission of valid data is rejected with a wait-time message,
\* validation is not run for it, and exactly one rate_limit_exceeded event is
\* logged.
C2_FourthAttemptRejected ==
    [][(/\ Invoked
        /\ validateForm(values, validationRules).isValid
        /\ Within(calls.recorded[FormKey], now, WindowMs) >= MaxAttempts) =>
        /\ steps' = <<"rateLimit">>
        /\ toast'.title = "Too many attempts"
        /\ toast'.remainingTime \in 1..(WindowMs \div MsPerMinute)
        /\ calls'.validated = calls.validated
        /\ formErrors' = formErrors
        /\ ~isSubmitting'
        /\ Len(events') = Len(events) + 1
        /\ LastEvent(events').type = "rate_limit_exceeded"
    ]_vars

\* C2's case: valid data was submitted a fourth time within 5 minutes of
\* three attempts that were let through, and was rejected.
C2_Witness ==
    /\ steps = <<"rateLimit">>
    /\ toast.title = "Too many attempts"
    /\ validateForm(values, validationRules).isValid
    /\ calls.last.at = now
    /\ Within(calls.recorded[FormKey], now, WindowMs) = MaxAttempts
    /\ Len(calls.validated) = MaxAttempts

\* C3: submitting the form with an empty firstName makes the Validator flag
\* firstName, leaves the form Idle, logs no form_submission event and logs
\* exactly one validation_failed event.
C3_EmptyFirstNameLogged ==
    [][(/\ HandleSubmit
        /\ values["firstName"].len = 0
        /\ \A f \in Fields \ {"firstName"} :
              validateField(values[f], validationRules[f]) = "") =>
        /\ formErrors'["firstName"] # ""
        /\ ~isSubmitting'
        /\ Len(events') = Len(events) + 1
        /\ LastEvent(events').type = "validation_failed"
    ]_vars

\* C4: valid data submitted once from a fresh session moves the form from Idle
\* to Submitting, logging one form_submission event with success true, and
\* from Submitting to Success with a confirmation that names the event; no
\* form_submission event with success false is logged.
C4_FreshValidSubmission ==
    [][/\ (/\ Invoked
           /\ events = <<>> /\ attempts[FormKey] = <<>>
           /\ validateForm(values, validationRules).isValid) =>
              /\ isSubmitting'
              /\ events' = <<[type |-> "form_submission",
                              metadata |-> [form |-> FormKey, success |-> TRUE],
                              timestamp |-> now]>>
       /\ (isSubmitting /\ ~isSubmitting') =>
              /\ now >= deadline
              /\ toast'.title = "Registration successful!"
              /\ toast'.eventTitle = event.title
              /\ events' = events
       /\ \A i \in DOMAIN events' :
              events'[i].type = "form_submission" => events'[i].metadata.success
    ]_vars

\* C4's case: the first attempt of the session went through to Success.
C4_Witness ==
    /\ ~isSubmitting
    /\ toast.title = "Registration successful!"
    /\ Len(events) = 1 /\ events[1].type = "form_submission"
    /\ Len(calls.recorded[FormKey]) = 1

\* C5: every rejected submit attempt appends at least one event to the
\* SecurityMonitor log.
C5_EveryRejectionLogged ==
    [][(Invoked /\ ~isSubmitting') => Len(events') > Len(events)]_vars

\* C6: every attempt that enters Submitting eventually returns to Idle,
\* whether the submission succeeds or throws, and an attempt rejected by a
\* check never sets isSubmitting.
C6_Resubmittable ==
    /\ isSubmitting ~> ~isSubmitting
    /\ [][(Invoked /\ ~Ran("submit", steps')) => (~isSubmitting /\ ~isSubmitting')]_vars
    /\ [][(isSubmitting /\ ~isSubmitting') =>
            toast'.title \in {"Registration successful!", "Registration failed"}]_vars

\* C6's case: a submission threw and the form is back in Idle.
C6_Witness ==
    /\ ~isSubmitting
    /\ toast.title = "Registration failed"
    /\ steps = Order

\* The number of timestamps of ts in the window of length windowMs that starts at t.
From(ts, t, windowMs) == Cardinality({i \in DOMAIN ts : ts[i] >= t /\ ts[i] - t < windowMs})

\* The times at which a simulated submission started.
Started == SelectSeq(events, LAMBDA e : e.type = "form_submission" /\ e.metadata.success)

StartedAt == [i \in DOMAIN Started |-> Started[i].timestamp]

\* C10: every invocation that passes the rate-limit check holds one of the 3
\* attempts of its window, also when validation or the suspicion check then
\* rejects it: in any 5-minute window at most 3 invocations reach validation
\* and at most 3 simulated submissions start.
C10_AttemptsConsumed ==
    /\ Len(attempts[FormKey]) =
          Within(calls.validated, calls.checkedAt[FormKey], WindowMs)
    /\ \A i \in DOMAIN calls.validated :
          From(calls.validated, calls.validated[i], WindowMs) <= MaxAttempts
    /\ \A i \in DOMAIN StartedAt : From(StartedAt, StartedAt[i], WindowMs) <= MaxAttempts

\* C10's case: three attempts failed validation and a valid fourth one within
\* the window was rejected by the rate limiter.
C10_Witness ==
    /\ steps = <<"rateLimit">>
    /\ validateForm(values, validationRules).isValid
    /\ Len(events) = MaxAttempts + 1
    /\ \A i \in 1..MaxAttempts : events[i].type = "validation_failed"
    /\ events[MaxAttempts + 1].type = "rate_limit_exceeded"
    /\ now - events[1].timestamp < WindowMs

\* The latest direct call, and the timestamps recorded for its key before it.
last == calls.last

RecordedBefore ==
    IF last.allowed
    THEN SubSeq(calls.recorded[last.key], 1, Len(calls.recorded[last.key]) - 1)
    ELSE calls.recorded[last.key]

\* The key of the latest call was only ever queried with that call's window.
OneWindow == calls.queried[last.key] = {last.windowMs}

\* C7: isAllowed returns true, and records the attempt, exactly when fewer
\* than maxAttempts recorded attempts of the key are younger than windowMs;
\* a rejected call records nothing.  So the first maxAttempts immediate calls
\* are allowed, the next immediate one is not, and a call made once the
\* window has elapsed is allowed however many calls were rejected meanwhile.
C7_IsAllowed ==
    (last.made /\ OneWindow) =>
        /\ last.allowed <=> Within(RecordedBefore, last.at, last.windowMs) < last.maxAttempts
        /\ attempts[last.key] =
              SelectSeq(calls.recorded[last.key], LAMBDA t : last.at - t < last.windowMs)
        /\ (\A i \in DOMAIN RecordedBefore : RecordedBefore[i] = last.at)
              => (last.allowed <=> Len(RecordedBefore) < last.maxAttempts)
        /\ (\A i \in DOMAIN RecordedBefore : last.at - RecordedBefore[i] >= last.windowMs)
              => last.allowed

\* C7's case: a call was allowed after the window of maxAttempts earlier
\* attempts of its key had elapsed.
C7_Witness ==
    /\ last.made /\ OneWindow /\ last.allowed
    /\ last.maxAttempts = MaxAttempts
    /\ Len(RecordedBefore) = MaxAttempts
    /\ attempts[last.key] = <<last.at>>

Longest(k) == CHOOSE w \in calls.queried[k] : \A v \in calls.queried[k] : v <= w

\* C9: as of the latest check of a key, every timestamp stored for the key is
\* no older than the longest window the key was ever queried with.
C9_StoredWithinLongestWindow ==
    \A k \in Keys : \A i \in DOMAIN attempts[k] :
        /\ calls.queried[k] # {}
        /\ attempts[k][i] <= calls.checkedAt[k]
        /\ calls.checkedAt[k] - attempts[k][i] <= Longest(k)

\* C9's case: a key queried with both windows holds a timestamp older than
\* the shorter one.
C9_Witness ==
    \E k \in Keys :
        /\ calls.queried[k] = Windows
        /\ attempts[k] # <<>>
        /\ calls.checkedAt[k] - attempts[k][1] >= WindowMs \div 2

====
